---- MODULE Spec2Model ----
(***************************************************************************)
(* Model of justai/frameworks_and_drivers/mongo_repositories.py: the three *)
(* MongoDB repositories (agent, conversation, backup) and the part of the  *)
(* pymongo / bson behaviour their methods rely on.                         *)
(*                                                                         *)
(* A collection is the sequence of its documents in natural (insertion)    *)
(* order.  A document is a function from field names to values, so that a  *)
(* field can be absent.  An identifier value is tagged with its type:      *)
(* a Python str and a bson ObjectId with the same 24 hex digits are        *)
(* different values, as they are for MongoDB.                              *)
(***************************************************************************)
EXTENDS Integers, Sequences, FiniteSets, TLC

VARIABLES
    agentColl,      \* db['agent']
    convColl,       \* db['conversation']
    backupColl,     \* db['backup']
    nameIndex,      \* whether the deployment has a unique index on agent.name
    nextOid,        \* how many ObjectIds the driver has generated, plus one
    recovered,      \* _ids of the conversation documents inserted by recover
    call,           \* the last repository call: method, arguments, outcome
    pc,             \* per client: where its create call stands (SpecRace)
    req             \* per client: the conversation its create call carries

vars == <<agentColl, convColl, backupColl, nameIndex, nextOid, recovered, call, pc, req>>

----------------------------------------------------------------------------
(* Bounds *)

MaxDocs == 2        \* documents a collection holds at most
MaxList == 2        \* conversations in a list handed to backup_conversations
NumClients == 2     \* clients calling create concurrently

----------------------------------------------------------------------------
(* Identifier values: None, str, bson.ObjectId *)

NoneId == [t |-> "none", v |-> ""]
Str(s) == [t |-> "str", v |-> s]
Oid(h) == [t |-> "oid", v |-> h]

\* The strings that are 24 hexadecimal digits ("x1" and "" are not).
HexStrings == {"h1", "h2", "h3", "h4", "hb"}

\* The ObjectIds the driver generates, in order; each is generated once.
GenHex == <<"h1", "h2">>

\* bson.ObjectId(x): an ObjectId is copied, a str is parsed and must be hex.
ObjectIdValid(x) == x.t = "oid" \/ (x.t = "str" /\ x.v \in HexStrings)
ObjectId(x) == IF x.t = "oid" THEN x ELSE Oid(x.v)

\* str(x) of a str or of an ObjectId (its hex digits).
str(x) == Str(x.v)

\* Python truthiness of an id: None and "" are false.
Truthy(x) == x.t = "oid" \/ (x.t = "str" /\ x.v # "")

----------------------------------------------------------------------------
(* Entities.  A stored message is the document of its two fields, role and *)
(* content, which is what the read paths index.                            *)

Message(role, content) == [role |-> role, content |-> content]
Conversation(agent_name, messages, id) ==
    [agent_name |-> agent_name, messages |-> messages, id |-> id]
Agent(name, system_prompt, dataset_generation_prompts) ==
    [name |-> name, system_prompt |-> system_prompt,
     dataset_generation_prompts |-> dataset_generation_prompts]

\* Conversation.to_dict(): the conversation's own fields, no store identifier.
to_dict(conversation) ==
    [agent_name |-> conversation.agent_name, messages |-> conversation.messages]

----------------------------------------------------------------------------
(* pymongo collection operations *)

Ids(coll) == {coll[i]._id : i \in 1..Len(coll)}

\* A query document matches when every field it names is present and equal.
Matches(d, q) == \A f \in DOMAIN q : f \in DOMAIN d /\ d[f] = q[f]

find(coll, q) == SelectSeq(coll, LAMBDA d : Matches(d, q))

\* find_one: the first match in a sequence of one, or the empty sequence (None).
find_one(coll, q) ==
    LET r == find(coll, q) IN IF r = <<>> THEN <<>> ELSE <<r[1]>>

FirstMatch(coll, q) ==
    LET S == {i \in 1..Len(coll) : Matches(coll[i], q)}
    IN IF S = {} THEN 0 ELSE CHOOSE i \in S : \A j \in S : i <= j

\* Whether doc collides with a document of coll on _id or on a unique field.
Collides(coll, doc, uniq) ==
    \E i \in 1..Len(coll) :
        \/ coll[i]._id = doc._id
        \/ \E f \in uniq : f \in DOMAIN doc /\ f \in DOMAIN coll[i] /\ coll[i][f] = doc[f]

\* insert_one with the server's check of _id left out.
insert_one_NoKey(coll, next, doc, uniq) ==
    LET fresh == "_id" \notin DOMAIN doc
        d == IF fresh THEN ("_id" :> Oid(GenHex[next])) @@ doc ELSE doc
        n == IF fresh THEN next + 1 ELSE next
    IN [coll |-> Append(coll, d), next |-> n, err |-> "ok"]

\* insert_one: the driver adds a fresh ObjectId when the document has no _id;
\* the server refuses a duplicate key.
insert_one(coll, next, doc, uniq) ==
    LET fresh == "_id" \notin DOMAIN doc
        d == IF fresh THEN ("_id" :> Oid(GenHex[next])) @@ doc ELSE doc
        n == IF fresh THEN next + 1 ELSE next
    IN IF Collides(coll, d, uniq)
       THEN [coll |-> coll, next |-> n, err |-> "DuplicateKeyError"]
       ELSE [coll |-> Append(coll, d), next |-> n, err |-> "ok"]

\* insert_many (ordered): refuses an empty list; inserts in order and stops at
\* the first duplicate key, keeping what was inserted before it.
RECURSIVE InsertEach(_, _, _)
InsertEach(coll, next, docs) ==
    IF docs = <<>> THEN [coll |-> coll, next |-> next, err |-> "ok"]
    ELSE LET r == insert_one(coll, next, Head(docs), {})
         IN IF r.err # "ok" THEN [coll |-> r.coll, next |-> r.next, err |-> "BulkWriteError"]
            ELSE InsertEach(r.coll, r.next, Tail(docs))

insert_many(coll, next, docs) ==
    IF docs = <<>> THEN [coll |-> coll, next |-> next, err |-> "TypeError"]
    ELSE InsertEach(coll, next, docs)

\* $set: the named fields are overwritten (or added), the others kept.
ApplySet(d, set) == set @@ d

\* update_one: $set on the first match; a duplicate key on a unique field fails.
update_one(coll, q, set, uniq) ==
    LET i == FirstMatch(coll, q)
    IN IF i = 0 THEN [coll |-> coll, err |-> "ok"]
       ELSE LET d == ApplySet(coll[i], set)
                others == SelectSeq([j \in 1..Len(coll) |-> IF j = i THEN <<>> ELSE <<coll[j]>>],
                                    LAMBDA s : s # <<>>)
                rest == [j \in 1..Len(others) |-> others[j][1]]
            IN IF Collides(rest, d, uniq)
               THEN [coll |-> coll, err |-> "DuplicateKeyError"]
               ELSE [coll |-> [coll EXCEPT ![i] = d], err |-> "ok"]

delete_one(coll, q) ==
    LET i == FirstMatch(coll, q)
    IN IF i = 0 THEN coll
       ELSE SubSeq(coll, 1, i - 1) \o SubSeq(coll, i + 1, Len(coll))

delete_many(coll, q) == SelectSeq(coll, LAMBDA d : ~Matches(d, q))

\* "messages.$[elem].content" with array_filters [{"elem.role": role}]: the
\* content of the array elements with that role, the other elements untouched.
SetElemContent(messages, role, content) ==
    [j \in 1..Len(messages) |->
        IF messages[j].role = role
        THEN [messages[j] EXCEPT !.content = content] ELSE messages[j]]

----------------------------------------------------------------------------
(* Each repository method is a function of its collection and the ObjectId  *)
(* counter, giving the new collection and counter, the outcome ("ok" or the *)
(* exception raised), the value returned, and n, the number of documents    *)
(* the store call inserted, matched or deleted.                             *)

Result(coll, next, err, ret, n) ==
    [coll |-> coll, next |-> next, err |-> err, ret |-> ret, n |-> n]

Count(coll, q) == Len(find(coll, q))

----------------------------------------------------------------------------
(* MongoAgentRepository *)

AgentDoc(agent) ==
    [name |-> agent.name, system_prompt |-> agent.system_prompt,
     dataset_generation_prompts |-> agent.dataset_generation_prompts]

AgentOf(doc) == Agent(doc.name, doc.system_prompt, doc.dataset_generation_prompts)

\* The unique indexes of db['agent'] besides _id.
AgentUnique(index) == IF index THEN {"name"} ELSE {}

Agent_get_by_name(coll, next, agent_name) ==
    LET document == find_one(coll, [name |-> agent_name])
    IN IF document # <<>>
       THEN Result(coll, next, "ok", <<AgentOf(document[1])>>, 1)
       ELSE Result(coll, next, "ok", <<>>, 0)

Agent_create(coll, next, index, agent) ==
    LET r == insert_one(coll, next, AgentDoc(agent), AgentUnique(index))
    IN IF r.err = "DuplicateKeyError"
       THEN Result(r.coll, r.next, "ValueError", <<>>, 0)
       ELSE Result(r.coll, r.next, r.err, <<>>, 1)

Agent_update(coll, next, index, current_agent, updated_agent) ==
    LET r == update_one(coll, [name |-> current_agent.name], AgentDoc(updated_agent),
                        AgentUnique(index))
    IN Result(r.coll, next, r.err, <<>>, Count(coll, [name |-> current_agent.name]))

Agent_delete(coll, next, agent) ==
    Result(delete_one(coll, [name |-> agent.name]), next, "ok", <<>>,
           IF Count(coll, [name |-> agent.name]) > 0 THEN 1 ELSE 0)

Agent_get_all(coll, next) ==
    Result(coll, next, "ok", [i \in 1..Len(coll) |-> AgentOf(coll[i])], Len(coll))

----------------------------------------------------------------------------
(* MongoConversationRepository *)

\* [Message(message_doc['role'], message_doc['content']) for message_doc in doc['messages']]
MessagesOf(doc) ==
    [j \in 1..Len(doc.messages) |-> Message(doc.messages[j].role, doc.messages[j].content)]

Conv_create(coll, next, conversation) ==
    IF Truthy(conversation.id)
    THEN IF find_one(coll, [id |-> conversation.id]) # <<>>
         THEN Result(coll, next, "ValueError", <<>>, 0)
         ELSE LET r == insert_one(coll, next,
                                  [_id |-> conversation.id,
                                   agent_name |-> conversation.agent_name,
                                   messages |-> conversation.messages], {})
              IN Result(r.coll, r.next, r.err, <<>>, Len(r.coll) - Len(coll))
    ELSE LET r == insert_one(coll, next,
                             [agent_name |-> conversation.agent_name,
                              messages |-> conversation.messages], {})
         IN Result(r.coll, r.next, r.err, <<>>, Len(r.coll) - Len(coll))

\* The loop of get_by_agent_name and get_all over a cursor.
ReadCursor(cursor) ==
    [i \in 1..Len(cursor) |->
        Conversation(cursor[i].agent_name, MessagesOf(cursor[i]), str(cursor[i]._id))]

Conv_get_by_agent_name(coll, next, agent_name) ==
    LET cursor == find(coll, [agent_name |-> agent_name])
    IN Result(coll, next, "ok", ReadCursor(cursor), Len(cursor))

\* update_agent_field without the array filter: every message is rewritten.
Conv_update_agent_field_NoFilter(coll, next, current_agent, updated_agent) ==
    Result([i \in 1..Len(coll) |->
               IF Matches(coll[i], [agent_name |-> current_agent.name])
               THEN ApplySet(coll[i],
                        [agent_name |-> updated_agent.name,
                         messages |-> [j \in 1..Len(coll[i].messages) |->
                                          [coll[i].messages[j] EXCEPT
                                              !.content = updated_agent.system_prompt]]])
               ELSE coll[i]],
           next, "ok", <<>>, Count(coll, [agent_name |-> current_agent.name]))

Conv_update_agent_field(coll, next, current_agent, updated_agent) ==
    Result([i \in 1..Len(coll) |->
               IF Matches(coll[i], [agent_name |-> current_agent.name])
               THEN ApplySet(coll[i],
                        [agent_name |-> updated_agent.name,
                         messages |-> SetElemContent(coll[i].messages, "system",
                                                     updated_agent.system_prompt)])
               ELSE coll[i]],
           next, "ok", <<>>, Count(coll, [agent_name |-> current_agent.name]))

Conv_delete_by_agent_name(coll, next, agent_name) ==
    Result(delete_many(coll, [agent_name |-> agent_name]), next, "ok", <<>>,
           Count(coll, [agent_name |-> agent_name]))

\* delete_by_agent_object filtering on the agent's name alone.
Conv_delete_by_agent_object_ByName(coll, next, agent) ==
    Result(delete_many(coll, [agent_name |-> agent.name]), next, "ok", <<>>,
           Count(coll, [agent_name |-> agent.name]))

Conv_delete_by_agent_object(coll, next, agent) ==
    Result(delete_many(coll, [agent_name |-> agent.name, agent_prompt |-> agent.system_prompt]),
           next, "ok", <<>>,
           Count(coll, [agent_name |-> agent.name, agent_prompt |-> agent.system_prompt]))

Conv_delete_by_id(coll, next, conversation_id) ==
    IF ~ObjectIdValid(conversation_id)
    THEN Result(coll, next, "InvalidId", <<>>, 0)
    ELSE Result(delete_one(coll, [_id |-> ObjectId(conversation_id)]), next, "ok", <<>>,
                Count(coll, [_id |-> ObjectId(conversation_id)]))

Conv_recover(coll, next, conversations) ==
    LET r == insert_many(coll, next, conversations)
    IN Result(r.coll, r.next, r.err, <<>>, Len(r.coll) - Len(coll))

Conv_get_all(coll, next) ==
    LET cursor == find(coll, <<>>)
    IN Result(coll, next, "ok", ReadCursor(cursor), Len(cursor))

Conv_get_by_id(coll, next, conversation_id) ==
    IF ~ObjectIdValid(conversation_id)
    THEN Result(coll, next, "InvalidId", <<>>, 0)
    ELSE LET document == find_one(coll, [_id |-> ObjectId(conversation_id)])
         IN IF document # <<>>
            THEN Result(coll, next, "ok",
                        <<Conversation(document[1].agent_name, MessagesOf(document[1]),
                                       document[1]._id)>>, 1)
            ELSE Result(coll, next, "ValueError", <<>>, 0)

Conv_update(coll, next, current_conversation, updated_conversation) ==
    LET r == update_one(coll, [_id |-> current_conversation.id],
                        [agent_name |-> updated_conversation.agent_name,
                         messages |-> updated_conversation.messages], {})
    IN Result(r.coll, next, r.err, <<>>, Count(coll, [_id |-> current_conversation.id]))

----------------------------------------------------------------------------
(* MongoBackupRepository *)

\* The argument of backup_conversations is a list (a sequence) or one
\* conversation: [list |-> TRUE, items |-> the list] or
\* [list |-> FALSE, items |-> <<the conversation>>].
Backup_backup_conversations(coll, next, conversations) ==
    IF conversations.list
    THEN LET r == insert_many(coll, next,
                      [i \in 1..Len(conversations.items) |-> to_dict(conversations.items[i])])
         IN Result(r.coll, r.next, r.err, <<>>, Len(r.coll) - Len(coll))
    ELSE LET r == insert_one(coll, next, to_dict(conversations.items[1]), {})
         IN Result(r.coll, r.next, r.err, <<>>, Len(r.coll) - Len(coll))

Backup_get_conversations_by_agent_object(coll, next, agent) ==
    LET cursor == find(coll, [agent_name |-> agent.name])
    IN Result(coll, next, "ok", cursor, Len(cursor))

Backup_delete_conversations_by_agent_object(coll, next, agent) ==
    Result(delete_many(coll, [agent_name |-> agent.name]), next, "ok", <<>>,
           Count(coll, [agent_name |-> agent.name]))

----------------------------------------------------------------------------
(* Inputs *)

AgentNames == {"bot", "bot2"}
Prompts == {"You are helpful", "Be terse"}

InputMessages ==
    { <<Message("system", "You are helpful"), Message("user", "You are helpful")>> }

\* Conversation.id as a caller sets it: None or a string.
CreateIds == {NoneId, Str("h1"), Str("x1")}

\* The id strings callers look up or delete by.
IdStrings == {Str("h1"), Str("x1")}

InputConversations ==
    {Conversation(a, m, i) : a \in AgentNames, m \in InputMessages, i \in CreateIds}

InputAgents == {Agent(n, p, <<>>) : n \in AgentNames, p \in Prompts}

\* The agent as it was before a change of its fields.
CurrentAgents == {Agent(n, "You are helpful", <<>>) : n \in AgentNames}

\* Raw documents handed to recover: a backup document with a prompt field and
\* its own ObjectId, and one with an "id" field and no _id.
RawDocs ==
    << [_id |-> Oid("hb"), agent_name |-> "bot", agent_prompt |-> "You are helpful",
        messages |-> <<Message("system", "You are helpful"), Message("user", "hi")>>],
       [id |-> Str("h1"), agent_name |-> "bot2",
        messages |-> <<Message("user", "hi")>>] >>

RecoverLists == {<<>>, <<RawDocs[1]>>, <<RawDocs[2]>>, <<RawDocs[1], RawDocs[1]>>}

\* The sequences over S of length at most n.
RECURSIVE SeqsUpTo(_, _)
SeqsUpTo(S, n) ==
    IF n = 0 THEN {<<>>}
    ELSE LET P == SeqsUpTo(S, n - 1)
         IN P \cup {Append(q, x) : q \in P, x \in S}

BackupArgs ==
    {[list |-> TRUE, items |-> l] : l \in SeqsUpTo(InputConversations, MaxList)}
    \cup {[list |-> FALSE, items |-> <<c>>] : c \in InputConversations}

----------------------------------------------------------------------------
(* State *)

NoConversation == Conversation("", <<>>, NoneId)
NoAgent == Agent("", "", <<>>)

\* The record of a call: the fields a method does not use keep these values.
Blank ==
    [op |-> "none", err |-> "ok", conv |-> NoConversation, cur |-> NoConversation,
     id |-> NoneId, agent |-> NoAgent, upd |-> NoAgent, name |-> "", list |-> <<>>,
     ret |-> <<>>, n |-> 0]

Init ==
    /\ agentColl = <<>>
    /\ convColl = <<>>
    /\ backupColl = <<>>
    /\ nameIndex = FALSE
    /\ nextOid = 1
    /\ recovered = {}
    /\ call = Blank
    /\ pc = [c \in 1..NumClients |-> "idle"]
    /\ req = [c \in 1..NumClients |-> NoConversation]

\* Room for k more documents, each of which may need a fresh ObjectId.
Room(coll, k) == Len(coll) + k <= MaxDocs /\ nextOid + k - 1 <= Len(GenHex)

Called(r, rec) == [err |-> r.err, ret |-> r.ret, n |-> r.n] @@ rec @@ Blank

\* A call on the conversation repository: r is the method's result, new the
\* _ids it inserted through recover.
ConvCall(r, rec, new) ==
    /\ convColl' = r.coll
    /\ nextOid' = r.next
    /\ recovered' = (recovered \cup new) \cap Ids(r.coll)
    /\ call' = Called(r, rec)
    /\ UNCHANGED <<agentColl, backupColl, nameIndex, pc, req>>

AgentCall(r, rec) ==
    /\ agentColl' = r.coll
    /\ nextOid' = r.next
    /\ call' = Called(r, rec)
    /\ UNCHANGED <<convColl, backupColl, nameIndex, recovered, pc, req>>

BackupCall(r, rec) ==
    /\ backupColl' = r.coll
    /\ nextOid' = r.next
    /\ call' = Called(r, rec)
    /\ UNCHANGED <<agentColl, convColl, nameIndex, recovered, pc, req>>

----------------------------------------------------------------------------
(* The conversation repository's methods as actions *)

Create ==
    \E c \in InputConversations :
        /\ Room(convColl, 1)
        /\ ConvCall(Conv_create(convColl, nextOid, c), [op |-> "create", conv |-> c], {})

GetByAgentName ==
    \E n \in AgentNames :
        ConvCall(Conv_get_by_agent_name(convColl, nextOid, n),
                 [op |-> "get_by_agent_name", name |-> n], {})

UpdateAgentField ==
    \E a \in CurrentAgents, u \in InputAgents :
        ConvCall(Conv_update_agent_field(convColl, nextOid, a, u),
                 [op |-> "update_agent_field", agent |-> a, upd |-> u], {})

DeleteByAgentName ==
    \E n \in AgentNames :
        ConvCall(Conv_delete_by_agent_name(convColl, nextOid, n),
                 [op |-> "delete_by_agent_name", name |-> n], {})

DeleteByAgentObject ==
    \E a \in InputAgents :
        ConvCall(Conv_delete_by_agent_object(convColl, nextOid, a),
                 [op |-> "delete_by_agent_object", agent |-> a], {})

DeleteById ==
    \E i \in IdStrings :
        ConvCall(Conv_delete_by_id(convColl, nextOid, i),
                 [op |-> "delete_by_id", id |-> i], {})

Recover ==
    \E l \in RecoverLists :
        /\ Room(convColl, Len(l))
        /\ LET r == Conv_recover(convColl, nextOid, l)
           IN ConvCall(r, [op |-> "recover", list |-> l], Ids(r.coll) \ Ids(convColl))

GetAll ==
    ConvCall(Conv_get_all(convColl, nextOid), [op |-> "get_all"], {})

GetById ==
    \E i \in IdStrings :
        ConvCall(Conv_get_by_id(convColl, nextOid, i), [op |-> "get_by_id", id |-> i], {})

\* update is called with a conversation the last read returned.
IsRead(c) == c.op \in {"get_by_agent_name", "get_all", "get_by_id"} /\ c.err = "ok"

Update ==
    /\ IsRead(call)
    /\ \E k \in 1..Len(call.ret), u \in InputConversations :
        /\ u.id = NoneId
        /\ ConvCall(Conv_update(convColl, nextOid, call.ret[k], u),
                    [op |-> "update", cur |-> call.ret[k], conv |-> u], {})

Next ==
    \/ Create
    \/ GetByAgentName
    \/ UpdateAgentField
    \/ DeleteByAgentName
    \/ DeleteByAgentObject
    \/ DeleteById
    \/ Recover
    \/ GetAll
    \/ GetById
    \/ Update

Spec == Init /\ [][Next]_vars

----------------------------------------------------------------------------
(* The agent repository's methods as actions.  The deployment either has    *)
(* the unique index on name or has only the _id index of a new collection.  *)

InitAgent ==
    /\ agentColl = <<>>
    /\ convColl = <<>>
    /\ backupColl = <<>>
    /\ nameIndex \in BOOLEAN
    /\ nextOid = 1
    /\ recovered = {}
    /\ call = Blank
    /\ pc = [c \in 1..NumClients |-> "idle"]
    /\ req = [c \in 1..NumClients |-> NoConversation]

AgentGetByName ==
    \E n \in AgentNames :
        AgentCall(Agent_get_by_name(agentColl, nextOid, n),
                  [op |-> "agent.get_by_name", name |-> n])

AgentCreate ==
    \E a \in InputAgents :
        /\ Room(agentColl, 1)
        /\ AgentCall(Agent_create(agentColl, nextOid, nameIndex, a),
                     [op |-> "agent.create", agent |-> a])

AgentUpdate ==
    \E a \in CurrentAgents, u \in InputAgents :
        AgentCall(Agent_update(agentColl, nextOid, nameIndex, a, u),
                  [op |-> "agent.update", agent |-> a, upd |-> u])

AgentDelete ==
    \E a \in CurrentAgents :
        AgentCall(Agent_delete(agentColl, nextOid, a),
                  [op |-> "agent.delete", agent |-> a])

AgentGetAll ==
    AgentCall(Agent_get_all(agentColl, nextOid), [op |-> "agent.get_all"])

NextAgent ==
    \/ AgentGetByName
    \/ AgentCreate
    \/ AgentUpdate
    \/ AgentDelete
    \/ AgentGetAll

SpecAgent == InitAgent /\ [][NextAgent]_vars

----------------------------------------------------------------------------
(* The backup repository's methods as actions *)

BackupConversations ==
    \E a \in BackupArgs :
        /\ Room(backupColl, Len(a.items))
        /\ BackupCall(Backup_backup_conversations(backupColl, nextOid, a),
                      [op |-> "backup_conversations", list |-> a.items,
                       name |-> IF a.list THEN "list" ELSE "one"])

BackupGet ==
    \E a \in CurrentAgents :
        BackupCall(Backup_get_conversations_by_agent_object(backupColl, nextOid, a),
                   [op |-> "get_conversations_by_agent_object", agent |-> a])

BackupDelete ==
    \E a \in CurrentAgents :
        BackupCall(Backup_delete_conversations_by_agent_object(backupColl, nextOid, a),
                   [op |-> "delete_conversations_by_agent_object", agent |-> a])

NextBackup ==
    \/ BackupConversations
    \/ BackupGet
    \/ BackupDelete

SpecBackup == Init /\ [][NextBackup]_vars

----------------------------------------------------------------------------
(* Concurrent create calls.  Each client runs create as two store calls,    *)
(* find_one and then insert_one, and other clients' calls may come between. *)
(* pc[c] is "idle", "checked" (find_one returned None), or the outcome of   *)
(* the client's last call.                                                  *)

ExplicitConversations == {c \in InputConversations : Truthy(c.id)}

\* Line 70: the existence check.
CreateCheck(c) ==
    /\ pc[c] # "checked"
    /\ \E conversation \in ExplicitConversations :
        /\ req' = [req EXCEPT ![c] = conversation]
        /\ pc' = [pc EXCEPT ![c] =
                    IF find_one(convColl, [id |-> conversation.id]) # <<>>
                    THEN "ValueError" ELSE "checked"]
    /\ UNCHANGED <<agentColl, convColl, backupColl, nameIndex, nextOid, recovered, call>>

\* Lines 72-78: the insert.
CreateInsert(c) ==
    /\ pc[c] = "checked"
    /\ LET r == insert_one(convColl, nextOid,
                           [_id |-> req[c].id, agent_name |-> req[c].agent_name,
                            messages |-> req[c].messages], {})
       IN /\ convColl' = r.coll
          /\ nextOid' = r.next
          /\ pc' = [pc EXCEPT ![c] = r.err]
    /\ UNCHANGED <<agentColl, backupColl, nameIndex, recovered, call, req>>

\* A raw document with an "id" field arrives through recover.
RaceRecover ==
    /\ Room(convColl, 1)
    /\ LET r == Conv_recover(convColl, nextOid, <<RawDocs[2]>>)
       IN /\ convColl' = r.coll
          /\ nextOid' = r.next
          /\ recovered' = (recovered \cup (Ids(r.coll) \ Ids(convColl))) \cap Ids(r.coll)
    /\ UNCHANGED <<agentColl, backupColl, nameIndex, call, pc, req>>

NextRace ==
    \/ \E c \in 1..NumClients : CreateCheck(c)
    \/ \E c \in 1..NumClients : CreateInsert(c)
    \/ RaceRecover

SpecRace == Init /\ [][NextRace]_vars

----------------------------------------------------------------------------
(* Claims.  A step is recognised by the call it records: call' is the call  *)
(* the step made, the unprimed variables are the store before it.           *)

Range(q) == {q[i] : i \in 1..Len(q)}
Stores == <<agentColl, convColl, backupColl>>

\* C1: after create succeeded for a conversation with an explicit id X,
\* get_by_id(X) succeeds and returns a conversation whose id is the string
\* form of X and whose messages are the original sequence.
C1_GetAfterCreate ==
    [][ ( /\ call.op = "create" /\ call.err = "ok" /\ Truthy(call.conv.id)
          /\ call'.op = "get_by_id" /\ call'.id = call.conv.id )
        => ( /\ call'.err = "ok"
             /\ Len(call'.ret) = 1
             /\ call'.ret[1].id = str(call.conv.id)
             /\ call'.ret[1].messages = call.conv.messages ) ]_vars

\* C2: create with an id that an existing record already uses fails with
\* ValueError, not with a store exception, and leaves the collection unchanged.
C2_DuplicateIdIsValueError ==
    [][ ( /\ call'.op = "create" /\ Truthy(call'.conv.id)
          /\ call'.conv.id \in Ids(convColl) )
        => ( call'.err = "ValueError" /\ convColl' = convColl ) ]_vars

\* C3: update_agent_field(current_agent, updated_agent) gives every
\* conversation of current_agent.name the name updated_agent.name and the
\* content updated_agent.system_prompt in each "system" message; the other
\* messages keep role, content and position, the document keeps its _id and
\* its other fields, and the conversations of other agents are unchanged.
C3_UpdateAgentField ==
    [][ call'.op = "update_agent_field" =>
        /\ Len(convColl') = Len(convColl)
        /\ \A i \in 1..Len(convColl) :
            LET d == convColl[i]
                e == convColl'[i]
            IN IF d.agent_name = call'.agent.name
               THEN /\ e.agent_name = call'.upd.name
                    /\ DOMAIN e = DOMAIN d
                    /\ \A f \in DOMAIN d \ {"agent_name", "messages"} : e[f] = d[f]
                    /\ Len(e.messages) = Len(d.messages)
                    /\ \A j \in 1..Len(d.messages) :
                        /\ e.messages[j].role = d.messages[j].role
                        /\ e.messages[j].content =
                              IF d.messages[j].role = "system"
                              THEN call'.upd.system_prompt
                              ELSE d.messages[j].content
               ELSE e = d ]_vars

\* C3's case: one call renamed two conversations and rewrote their system
\* message, and their user message still has its own content.
C3_Witness ==
    /\ call.op = "update_agent_field" /\ call.n >= 2
    /\ call.agent.name # call.upd.name
    /\ call.upd.system_prompt = "Be terse"
    /\ Cardinality({i \in 1..Len(convColl) :
            /\ convColl[i].agent_name = call.upd.name
            /\ \E j \in 1..Len(convColl[i].messages) :
                 convColl[i].messages[j] = Message("system", "Be terse")
            /\ \E j \in 1..Len(convColl[i].messages) :
                 convColl[i].messages[j] = Message("user", "You are helpful")}) >= 2

\* C4: agent create with the name of an existing record fails with ValueError
\* and leaves the collection unchanged; so create never makes two records
\* share a name.
C4_AgentNameUnique ==
    [][ call'.op = "agent.create" =>
        /\ (\E i \in 1..Len(agentColl) : agentColl[i].name = call'.agent.name)
              => (call'.err = "ValueError" /\ agentColl' = agentColl)
        /\ (\A i, j \in 1..Len(agentColl) : agentColl[i].name = agentColl[j].name => i = j)
              => (\A i, j \in 1..Len(agentColl') :
                      agentColl'[i].name = agentColl'[j].name => i = j) ]_vars

\* C5: a delete that matches no record (agent delete by name, delete_by_id by
\* id string, delete_by_agent_name) returns normally and leaves every
\* collection unchanged.
C5_DeleteNothing ==
    [][ ( \/ /\ call'.op = "agent.delete"
             /\ \A i \in 1..Len(agentColl) : agentColl[i].name # call'.agent.name
          \/ /\ call'.op = "delete_by_id"
             /\ \A i \in 1..Len(convColl) : str(convColl[i]._id) # call'.id
          \/ /\ call'.op = "delete_by_agent_name"
             /\ \A i \in 1..Len(convColl) : convColl[i].agent_name # call'.name )
        => ( call'.err = "ok" /\ Stores' = Stores ) ]_vars

\* C6: backup_conversations returns normally and adds exactly one document
\* for a single conversation and exactly N for a list of N, N >= 0.
C6_BackupAddsN ==
    [][ call'.op = "backup_conversations" =>
        ( /\ call'.err = "ok"
          /\ Len(backupColl') = Len(backupColl) + Len(call'.list) ) ]_vars

\* C7: update(current, updated), current being a conversation the last read
\* returned, overwrites agent_name and messages of the record current.id
\* identifies, keeps its identifier, and leaves the other records unchanged.
C7_UpdateByReadId ==
    [][ call'.op = "update" =>
        \E i \in 1..Len(convColl) :
            /\ str(convColl[i]._id) = str(call'.cur.id)
            /\ convColl[i].agent_name = call'.cur.agent_name
            /\ Len(convColl') = Len(convColl)
            /\ convColl'[i]._id = convColl[i]._id
            /\ convColl'[i].agent_name = call'.conv.agent_name
            /\ convColl'[i].messages = call'.conv.messages
            /\ \A j \in 1..Len(convColl) : j # i => convColl'[j] = convColl[j] ]_vars

\* C8: every conversation a read returns carries its id as a string, and
\* get_by_id of that string finds the same conversation.
C8_ReadIdsAreStrings ==
    IsRead(call) =>
        \A k \in 1..Len(call.ret) :
            /\ call.ret[k].id.t = "str"
            /\ LET r == Conv_get_by_id(convColl, nextOid, call.ret[k].id)
               IN /\ r.err = "ok"
                  /\ r.ret[1].agent_name = call.ret[k].agent_name
                  /\ r.ret[1].messages = call.ret[k].messages

\* C9: under every interleaving of concurrent create calls, no two records of
\* the conversation collection share an identifier, and of the calls that
\* carry the same id at most one succeeds: a call that succeeded has its
\* record in the store, and a call that lost ended in an error with the
\* winner's record in the store.
C9_OneRecordPerId ==
    /\ \A i, j \in 1..Len(convColl) : convColl[i]._id = convColl[j]._id => i = j
    /\ \A c, d \in 1..NumClients :
          (c # d /\ pc[c] = "ok" /\ pc[d] = "ok") => req[c].id # req[d].id
    /\ \A c \in 1..NumClients :
          pc[c] \in {"ok", "DuplicateKeyError"} => req[c].id \in Ids(convColl)

\* C9's case: two clients carried the same id with different conversations;
\* one insert succeeded and the other ended in an error.
C9_Witness ==
    \E c, d \in 1..NumClients :
        /\ c # d
        /\ pc[c] = "ok" /\ pc[d] = "DuplicateKeyError"
        /\ req[c].id = req[d].id /\ req[c].agent_name # req[d].agent_name
        /\ \E i \in 1..Len(convColl) :
              convColl[i]._id = req[c].id /\ convColl[i].agent_name = req[c].agent_name

\* C10: delete_by_agent_object(agent) removes exactly the documents with
\* agent_name = agent.name and a field agent_prompt = agent.system_prompt.
\* Only documents inserted by recover carry an agent_prompt field, so only
\* those are ever removed, and a store without them is left unchanged.
C10_DeleteByAgentObject ==
    [][ /\ \A i \in 1..Len(convColl') :
              convColl'[i]._id \notin recovered' => "agent_prompt" \notin DOMAIN convColl'[i]
        /\ call'.op = "delete_by_agent_object" =>
              /\ Range(convColl') \subseteq Range(convColl)
              /\ \A i \in 1..Len(convColl) :
                    LET d == convColl[i]
                        gone == d \notin Range(convColl')
                    IN /\ gone <=> ( /\ d.agent_name = call'.agent.name
                                     /\ "agent_prompt" \in DOMAIN d
                                     /\ d.agent_prompt = call'.agent.system_prompt )
                       /\ gone => d._id \in recovered
              /\ recovered = {} => convColl' = convColl ]_vars

\* C10's case: delete_by_agent_object was called for an agent that has a
\* conversation written by create, and that conversation is still there.
C10_Witness ==
    /\ call.op = "delete_by_agent_object"
    /\ \E i \in 1..Len(convColl) :
          /\ convColl[i].agent_name = call.agent.name
          /\ convColl[i]._id \notin recovered

====
